---- MODULE Spec2Model ----
(***************************************************************************)
(* B2B wholesale POS modal: checkout screen state machine, quantity-rule   *)
(* validation, and the draft-order submission pipeline.                    *)
(*                                                                         *)
(* Money is kept in cents.  Text is kept as sequences of one-character     *)
(* strings so that trimming, lower-casing, substring search and the PO     *)
(* number pattern are computed, not assumed.  A JavaScript null/undefined  *)
(* is NULL; an absent numeric rule field (null) is 0, which the code       *)
(* treats the same way (both are falsy).                                   *)
(*                                                                         *)
(* Scope.  The company of the selected customer has a location catalog     *)
(* (the price-list fallback fetchCatalogData is not taken); the lookups of *)
(* one fetchB2BPricingForCart call answer together or fail together.  The *)
(* surcharge description, the custom delivery name and the B2B detection   *)
(* only feed attributes and displays that are left out of the order lines. *)
(* A submission reads the payment terms selected when the button is        *)
(* pressed.  The modal does not call the hook useTaxCalculation; the hook  *)
(* is modelled with the modal's cart, pricing, location and fees as its    *)
(* arguments.                                                              *)
(*                                                                         *)
(* The specifications share the variables and the actions: Spec (ordering: *)
(* select, go forward, type the PO number, submit, start over), SpecReview *)
(* (select, edit quantities, set delivery method and fees), SpecNext       *)
(* (goToNextScreen called on any screen), SpecTax (the tax hook and the    *)
(* order totals under any inputs), SpecSelect (two selection handlers in   *)
(* flight at once) and SpecAssemble (the line items of one submission      *)
(* under any cart order, attributes and fee texts).                        *)
(***************************************************************************)
EXTENDS Integers, Sequences, FiniteSets, TLC

NULL == "null"
\* an absent object (undefined/null where the code holds an object)
Absent == [absent |-> TRUE]

\* ------------------------------------------------------------------ bounds
MaxQty == 5            \* cap on a cart quantity reached with the + control
MaxTasks == 1          \* selection handlers in flight at once
MaxInFlight == 1       \* createB2BOrder invocations in flight at once
MaxConcurrent == 2     \* selection handlers in flight at once, selection scenario

\* ------------------------------------------------------- program constants
MinPoLen == 3
MaxPoLen == 20

\* -------------------------------------------------------------------- text
UpperChars == <<"A","B","C","D","E","F","G","H","I","J","K","L","M",
                "N","O","P","Q","R","S","T","U","V","W","X","Y","Z">>
LowerChars == <<"a","b","c","d","e","f","g","h","i","j","k","l","m",
                "n","o","p","q","r","s","t","u","v","w","x","y","z">>
DigitChars == <<"0","1","2","3","4","5","6","7","8","9">>
SpaceChars == {" "}

Range(s) == {s[i] : i \in DOMAIN s}

Rep(c, n) == [i \in 1..n |-> c]

LowerChar(c) ==
  IF c \in Range(UpperChars)
    THEN LowerChars[CHOOSE i \in DOMAIN UpperChars : UpperChars[i] = c]
    ELSE c

toLowerCase(s) == [i \in DOMAIN s |-> LowerChar(s[i])]

\* String.prototype.includes: kw occurs as a contiguous substring of s
includes(s, kw) ==
  \E k \in 0..(Len(s) - Len(kw)) : \A i \in 1..Len(kw) : s[k + i] = kw[i]

\* String.prototype.trim
RECURSIVE trim(_)
trim(s) ==
  IF s = <<>> THEN s
  ELSE IF Head(s) \in SpaceChars THEN trim(Tail(s))
  ELSE IF s[Len(s)] \in SpaceChars THEN trim(SubSeq(s, 1, Len(s) - 1))
  ELSE s

\* /^[A-Z0-9]{3,20}$/i
validatePONumber(poNumber) ==
  /\ Len(poNumber) >= MinPoLen
  /\ Len(poNumber) <= MaxPoLen
  /\ \A i \in DOMAIN poNumber :
       poNumber[i] \in Range(UpperChars) \cup Range(LowerChars) \cup Range(DigitChars)

\* --------------------------------------------------------- input domains
Customers == {"c1"}
Locations == {"l1"}
Products == {"p1", "p2"}

Widget == <<"W","i","d","g","e","t">>
RushFee == <<"R","u","s","h"," ","F","e","e">>

\* Lines of the POS cart handed to the modal (apiData.cart.subscribable.initial)
PosLine(p, title, q, price) ==
  [productId |-> p, title |-> title, quantity |-> q, price |-> price]

PosCarts ==
  { <<PosLine("p1", Widget, 2, 1000), PosLine("p2", RushFee, 1, 500)>> }

\* What the pricing collaborator holds per company location and product:
\* contextual price and quantity rule (maximum/increment 0 = none).

Catalog ==
  [l \in Locations |->
    [p \in Products |->
      IF p = "p1"
        THEN [price |-> 800,
              rule |-> [minQuantity |-> 3, maxQuantity |-> 4, increment |-> 2]]
        ELSE [price |-> 500,
              rule |-> [minQuantity |-> 1, maxQuantity |-> 0, increment |-> 0]]]]

\* Text the operator types into the PO field
PoInputs ==
  { <<>>, <<" ">>, <<"a","b">>, <<"a","b","1">>, <<"a","-","1">>,
    Rep("7", MaxPoLen + 1) }

PaymentTermsTemplates == {"net30"}

\* ------------------------------------------------------- cart and validator
\* processCartItems: one OrderItem per POS cart line, at the POS price (the
\* pricing data of fetchB2BPricingForCart carries no variant to match)
processCartItems(cart) ==
  [i \in DOMAIN cart |->
    [id |-> i,
     productId |-> cart[i].productId,
     name |-> cart[i].title,
     quantity |-> IF cart[i].quantity = 0 THEN 1 ELSE cart[i].quantity,
     price |-> cart[i].price,
     customAttributes |-> <<>>]]

SurchargeKeywords ==
  << <<"s","u","r","c","h","a","r","g","e">>, <<"f","e","e">>,
     <<"c","h","a","r","g","e">>, <<"d","e","l","i","v","e","r","y">>,
     <<"h","a","n","d","l","i","n","g">>, <<"r","u","s","h">> >>

\* a classifier that compares the name as it is written
isSurchargeItemCaseSensitive(item) ==
  \/ \E a \in DOMAIN item.customAttributes :
       /\ item.customAttributes[a].key = "Type"
       /\ item.customAttributes[a].value = "Surcharge"
  \/ \E k \in DOMAIN SurchargeKeywords :
       includes(item.name, SurchargeKeywords[k])

isSurchargeItem(item) ==
  \/ \E a \in DOMAIN item.customAttributes :
       /\ item.customAttributes[a].key = "Type"
       /\ item.customAttributes[a].value = "Surcharge"
  \/ \E k \in DOMAIN SurchargeKeywords :
       includes(toLowerCase(item.name), SurchargeKeywords[k])

\* The messages validateQuantityRules pushes for one item, in the code's order
ItemErrors(item, rules) ==
  LET r == rules[item.productId] IN
  IF r = Absent THEN <<>>
  ELSE (IF item.quantity < r.minQuantity
          THEN << [item |-> item.id, kind |-> "min"] >> ELSE <<>>)
       \o (IF r.maxQuantity # 0 /\ item.quantity > r.maxQuantity
          THEN << [item |-> item.id, kind |-> "max"] >> ELSE <<>>)
       \o (IF r.increment # 0 /\ item.quantity % r.increment # 0
          THEN << [item |-> item.id, kind |-> "increment"] >> ELSE <<>>)

RECURSIVE QuantityErrors(_, _)
QuantityErrors(items, rules) ==
  IF items = <<>> THEN <<>>
  ELSE ItemErrors(Head(items), rules) \o QuantityErrors(Tail(items), rules)

validateQuantityRules(items, rules) ==
  LET errors == QuantityErrors(items, rules) IN
  [isValid |-> errors = <<>>, errors |-> errors]

NoRules == [p \in Products |-> Absent]
NoPricing == [p \in Products |-> Absent]

\* ------------------------------------------------------------------- state
VARIABLES
  posCart,             \* the POS cart the modal was opened on
  currentScreen,
  selectedCustomer,
  selectedLocation,
  selectedCompany,
  availableCompanies,
  cartItems,
  quantityRules,
  b2bPricing,
  poNumber,
  deliveryMethod,
  customDeliveryFee,
  customSurcharge,
  paymentTermsTemplates,
  selectedPaymentTerms,
  selectedProduct,
  productDetailSource,
  validationErrors,
  createdOrder,
  tasks,               \* selection handlers suspended at an await
  subs,                \* createB2BOrder invocations, by slot
  lastNext,            \* the screen and verdict goToNextScreen was last called on
  storeTaxSettings,    \* useTaxCalculation's parameter
  customerTaxExempt,   \* useTaxCalculation's parameter
  taxData,             \* useTaxCalculation's state
  effectPending        \* the hook's effect is scheduled and has not run yet

vars ==
  << posCart, currentScreen, selectedCustomer, selectedLocation, selectedCompany,
     availableCompanies, cartItems, quantityRules, b2bPricing, poNumber,
     deliveryMethod, customDeliveryFee, customSurcharge, paymentTermsTemplates,
     selectedPaymentTerms, selectedProduct, productDetailSource,
     validationErrors, createdOrder, tasks, subs, lastNext,
     storeTaxSettings, customerTaxExempt, taxData, effectPending >>

selectionVars == << selectedCustomer, selectedLocation, selectedCompany >>
pricingVars == << quantityRules, b2bPricing >>
deliveryVars == << poNumber, deliveryMethod, customDeliveryFee, customSurcharge >>
termsVars == << paymentTermsTemplates, selectedPaymentTerms >>
detailVars == << selectedProduct, productDetailSource >>
taxVars == << storeTaxSettings, customerTaxExempt, taxData, effectPending >>

quantityValidation == validateQuantityRules(cartItems, quantityRules)

\* ---------------------------------------------------------------- fees
NaN == [nan |-> TRUE, value |-> 0]
Number(n) == [nan |-> FALSE, value |-> n]

DigitVal(c) == (CHOOSE i \in DOMAIN DigitChars : DigitChars[i] = c) - 1

RECURSIVE TakeDigits(_)
TakeDigits(s) ==
  IF s # <<>> /\ Head(s) \in Range(DigitChars)
    THEN <<Head(s)>> \o TakeDigits(Tail(s))
    ELSE <<>>

RECURSIVE DigitsToInt(_)
DigitsToInt(d) ==
  IF d = <<>> THEN 0
  ELSE DigitsToInt(SubSeq(d, 1, Len(d) - 1)) * 10 + DigitVal(d[Len(d)])

RECURSIVE trimStart(_)
trimStart(s) ==
  IF s # <<>> /\ Head(s) \in SpaceChars THEN trimStart(Tail(s)) ELSE s

\* parseFloat, in cents: optional sign, digits, optional fraction; what
\* follows the number is ignored; no digits at all gives NaN.
parseFloat(s) ==
  LET t == trimStart(s)
      signed == t # <<>> /\ Head(t) \in {"-", "+"}
      u == IF signed THEN Tail(t) ELSE t
      ip == TakeDigits(u)
      rest == SubSeq(u, Len(ip) + 1, Len(u))
      fp == IF rest # <<>> /\ Head(rest) = "." THEN TakeDigits(Tail(rest)) ELSE <<>>
      frac == DigitsToInt(SubSeq(fp \o <<"0", "0">>, 1, 2))
      mag == DigitsToInt(ip) * 100 + frac
  IN IF ip = <<>> /\ fp = <<>> THEN NaN
     ELSE IF signed /\ Head(t) = "-" THEN Number(0 - mag) ELSE Number(mag)

\* x || 0
OrZero(x) == IF x.nan THEN 0 ELSE x.value

FeeInputs == { <<"0", ".", "0", "0">>, <<"5">> }

deliveryFee ==
  IF deliveryMethod = "pickup" THEN 0 ELSE OrZero(parseFloat(customDeliveryFee))

surchargeAmount == OrZero(parseFloat(customSurcharge))

totalFees == deliveryFee + surchargeAmount

\* contextualPricing?.price || item.price
UnitPrice(item, pricing) ==
  IF pricing[item.productId] # Absent /\ pricing[item.productId].price # 0
    THEN pricing[item.productId].price
    ELSE item.price

RECURSIVE Subtotal(_, _)
Subtotal(items, pricing) ==
  IF items = <<>> THEN 0
  ELSE UnitPrice(Head(items), pricing) * Head(items).quantity
         + Subtotal(Tail(items), pricing)

orderSummary ==
  LET subtotal == Subtotal(cartItems, b2bPricing) IN
  [subtotal |-> subtotal,
   deliveryFee |-> deliveryFee,
   surchargeAmount |-> surchargeAmount,
   totalFees |-> totalFees,
   finalTotal |-> subtotal + totalFees]

\* ----------------------------------------------------------- navigation
Screens ==
  {"customer", "location", "cart", "quantity", "product-detail", "delivery",
   "confirmation"}

\* goToNextScreen's screenFlow; NULL where the table has no entry
NextScreenUngated(screen, isValid) ==
  CASE screen = "customer" -> "location"
    [] screen = "location" -> "cart"
    [] screen = "cart" -> "delivery"
    [] screen = "quantity" -> "delivery"
    [] screen = "delivery" -> "confirmation"
    [] OTHER -> NULL

NextScreen(screen, isValid) ==
  CASE screen = "customer" -> "location"
    [] screen = "location" -> "cart"
    [] screen = "cart" -> IF isValid THEN "delivery" ELSE "quantity"
    [] screen = "quantity" -> "delivery"
    [] screen = "delivery" -> "confirmation"
    [] OTHER -> NULL

\* goToPreviousScreen's screenFlow
PreviousScreen(screen, isValid) ==
  CASE screen = "location" -> "customer"
    [] screen = "cart" -> "location"
    [] screen = "quantity" -> "cart"
    [] screen = "delivery" -> IF isValid THEN "cart" ELSE "quantity"
    [] screen = "confirmation" -> "delivery"
    [] OTHER -> NULL

goToNextScreen ==
  LET nextScreen == NextScreen(currentScreen, quantityValidation.isValid) IN
  currentScreen' = IF nextScreen # NULL THEN nextScreen ELSE currentScreen

goToPreviousScreen ==
  LET prevScreen == PreviousScreen(currentScreen, quantityValidation.isValid) IN
  currentScreen' = IF prevScreen # NULL THEN prevScreen ELSE currentScreen

\* ------------------------------------------------------------------- Init
\* useState's initial taxData
InitialTaxData ==
  [rate |-> 0, amount |-> 0, title |-> "Tax", isIncluded |-> FALSE,
   shippingTaxable |-> FALSE]

IdleSub == [pc |-> "idle", log |-> <<>>]
NoCall == [screen |-> NULL, isValid |-> FALSE]

Init ==
  /\ posCart \in PosCarts
  /\ currentScreen = "customer"
  /\ selectedCustomer = NULL
  /\ selectedLocation = NULL
  /\ selectedCompany = NULL
  /\ availableCompanies = {}
  /\ cartItems = <<>>
  /\ quantityRules = NoRules
  /\ b2bPricing = NoPricing
  /\ poNumber = <<>>
  /\ deliveryMethod = "pickup"
  /\ customDeliveryFee = <<"0", ".", "0", "0">>
  /\ customSurcharge = <<"0", ".", "0", "0">>
  /\ paymentTermsTemplates = "loading"
  /\ selectedPaymentTerms = NULL
  /\ selectedProduct = Absent
  /\ productDetailSource = "cart"
  /\ validationErrors = <<>>
  /\ createdOrder = Absent
  \* the mount effect has called loadCartItems()
  /\ tasks = << [kind |-> "mount", pc |-> "load", products |-> {}, loc |-> NULL] >>
  /\ subs = [n \in 1..MaxInFlight |-> IdleSub]
  /\ lastNext = NoCall
  /\ storeTaxSettings = Absent
  /\ customerTaxExempt = FALSE
  /\ taxData = InitialTaxData
  /\ effectPending = TRUE

\* ------------------------------------------------- asynchronous handlers
SelectionTasks == {i \in DOMAIN tasks : tasks[i].kind # "mount"}

RemoveAt(seq, i) == SubSeq(seq, 1, i - 1) \o SubSeq(seq, i + 1, Len(seq))

ProductsOf(items) == {items[i].productId : i \in DOMAIN items}

\* a handler suspended at an await, with the cart items of the render it
\* closed over (fetchB2BPricingForCart reads their product ids)
NewTask(kind, pc, loc) ==
  [kind |-> kind, pc |-> pc, products |-> ProductsOf(cartItems), loc |-> loc]

\* fetchB2BPricingForCart over the products of the calling render's cart; ok is
\* the set of products whose fetchContextualPricing call returned a result.
fetchB2BPricingForCart(loc, products, ok) ==
  [pricing |->
     [p \in Products |->
        IF p \in products \cap ok
          THEN [price |-> Catalog[loc][p].price] ELSE Absent],
   rules |->
     [p \in Products |->
        IF p \in products \cap ok
          THEN Catalog[loc][p].rule ELSE Absent]]

\* the lookups of one fetchB2BPricingForCart call all answer or all fail
PricingOutcomes(products) == {products, {}}

\* useEffect on quantityValidation
SyncValidationErrors ==
  validationErrors' =
    LET v == validateQuantityRules(cartItems', quantityRules') IN
    IF v.isValid THEN <<>> ELSE v.errors

\* the mount effect: fetchPaymentTermsTemplates and the auto-selection of the
\* first NET template
PaymentTermsTemplatesLoaded ==
  /\ paymentTermsTemplates = "loading"
  /\ \E found \in BOOLEAN :
       /\ paymentTermsTemplates' = IF found THEN "loaded" ELSE "none"
       /\ selectedPaymentTerms' =
            IF found THEN CHOOSE t \in PaymentTermsTemplates : TRUE ELSE NULL
  /\ UNCHANGED << posCart, taxVars, currentScreen, selectionVars, availableCompanies,
                  cartItems, pricingVars, deliveryVars, detailVars,
                  validationErrors, createdOrder, tasks, subs, lastNext >>

\* handleCustomerSelection, after `await fetchCustomerCompanies`
CustomerCompaniesFetched ==
  \E i \in DOMAIN tasks :
    /\ tasks[i].kind = "customer" /\ tasks[i].pc = "companies"
    /\ \E result \in {"found", "none", "error"} :
         availableCompanies' =
           CASE result = "found" -> Locations
             [] result = "none" -> {}
             [] OTHER -> availableCompanies
    /\ tasks' = [tasks EXCEPT ![i].pc = "pricing"]
    /\ UNCHANGED << posCart, taxVars, currentScreen, selectionVars, cartItems, pricingVars,
                    deliveryVars, termsVars, detailVars, validationErrors,
                    createdOrder, subs, lastNext >>

\* handleCustomerSelection: company and location catalog found
CustomerPricingFetched ==
  \E i \in DOMAIN tasks, l \in Locations :
    \E ok \in PricingOutcomes(tasks[i].products) :
      /\ tasks[i].kind = "customer" /\ tasks[i].pc = "pricing"
      /\ LET r == fetchB2BPricingForCart(l, tasks[i].products, ok) IN
           /\ b2bPricing' = r.pricing
           /\ quantityRules' = r.rules
      /\ tasks' = [tasks EXCEPT ![i].pc = "load"]
      /\ UNCHANGED << posCart, taxVars, currentScreen, selectionVars, availableCompanies,
                      cartItems, deliveryVars, termsVars, detailVars,
                      createdOrder, subs, lastNext >>
      /\ SyncValidationErrors

\* handleCustomerSelection: no company for the customer
CustomerNoCompany ==
  \E i \in DOMAIN tasks :
    /\ tasks[i].kind = "customer" /\ tasks[i].pc = "pricing"
    /\ tasks' = [tasks EXCEPT ![i].pc = "load"]
    /\ UNCHANGED << posCart, taxVars, currentScreen, selectionVars, availableCompanies,
                    cartItems, pricingVars, deliveryVars, termsVars, detailVars,
                    validationErrors, createdOrder, subs, lastNext >>

\* the location button's handler, after `await fetchB2BPricingForCart`
LocationPricingFetched ==
  \E i \in DOMAIN tasks :
    \E ok \in PricingOutcomes(tasks[i].products) :
      /\ tasks[i].kind = "location" /\ tasks[i].pc = "pricing"
      /\ LET r == fetchB2BPricingForCart(tasks[i].loc, tasks[i].products, ok) IN
           /\ b2bPricing' = r.pricing
           /\ quantityRules' = r.rules
      /\ tasks' = [tasks EXCEPT ![i].pc = "load"]
      /\ UNCHANGED << posCart, taxVars, currentScreen, selectionVars, availableCompanies,
                      cartItems, deliveryVars, termsVars, detailVars,
                      createdOrder, subs, lastNext >>
      /\ SyncValidationErrors

\* loadCartItems resolving: setCartItems(items)
CartItemsLoaded ==
  \E i \in DOMAIN tasks :
    /\ tasks[i].pc = "load"
    /\ cartItems' = processCartItems(posCart)
    /\ tasks' = RemoveAt(tasks, i)
    /\ UNCHANGED << posCart, taxVars, currentScreen, selectionVars, availableCompanies,
                    pricingVars, deliveryVars, termsVars, detailVars,
                    createdOrder, subs, lastNext >>
    /\ SyncValidationErrors

\* the location screen's auto-load effect: fetchCustomerCompanies again while
\* no company location is listed
CompaniesAutoLoaded ==
  /\ currentScreen = "location"
  /\ availableCompanies = {}
  /\ selectedCustomer # NULL
  /\ \A i \in DOMAIN tasks : tasks[i].pc # "companies"
  /\ availableCompanies' = Locations
  /\ UNCHANGED << posCart, taxVars, currentScreen, selectionVars, cartItems, pricingVars,
                  deliveryVars, termsVars, detailVars, validationErrors,
                  createdOrder, tasks, subs, lastNext >>

\* -------------------------------------------------------- customer screen
\* tap on a customer row
SelectCustomer ==
  \E c \in Customers :
    /\ currentScreen = "customer"
    /\ selectedCustomer' = c
    /\ UNCHANGED << posCart, taxVars, currentScreen, selectedLocation, selectedCompany,
                    availableCompanies, cartItems, pricingVars, deliveryVars,
                    termsVars, detailVars, validationErrors, createdOrder,
                    tasks, subs, lastNext >>

\* "Proceed to Company Selection": handleCustomerSelection up to its first
\* await, while fewer than `limit` selection handlers are suspended
StartCustomerSelection(limit) ==
  /\ currentScreen = "customer"
  /\ selectedCustomer # NULL
  /\ Cardinality(SelectionTasks) < limit
  /\ currentScreen' = "location"
  /\ tasks' = Append(tasks, NewTask("customer", "companies", NULL))
  /\ UNCHANGED << posCart, taxVars, selectionVars, availableCompanies, cartItems,
                  pricingVars, deliveryVars, termsVars, detailVars,
                  validationErrors, createdOrder, subs, lastNext >>

handleCustomerSelection == StartCustomerSelection(MaxTasks)

\* -------------------------------------------------------- location screen
\* tap on a company location: the handler up to its first await, while fewer
\* than `limit` selection handlers are suspended
StartLocationSelection(limit) ==
  \E l \in availableCompanies :
    /\ currentScreen = "location"
    /\ Cardinality(SelectionTasks) < limit
    /\ selectedCompany' = l
    /\ selectedLocation' = l
    /\ tasks' = Append(tasks, NewTask("location", "pricing", l))
    /\ UNCHANGED << posCart, taxVars, currentScreen, selectedCustomer, availableCompanies,
                    cartItems, pricingVars, deliveryVars, termsVars, detailVars,
                    validationErrors, createdOrder, subs, lastNext >>

SelectLocation == StartLocationSelection(MaxTasks)

\* "Proceed to Order Review", disabled without a company or a customer
ProceedToOrderReview ==
  /\ currentScreen = "location"
  /\ selectedCompany # NULL /\ selectedCustomer # NULL
  /\ goToNextScreen
  /\ UNCHANGED << posCart, taxVars, selectionVars, availableCompanies, cartItems,
                  pricingVars, deliveryVars, termsVars, detailVars,
                  validationErrors, createdOrder, tasks, subs, lastNext >>

\* "Back" on the location, cart, quantity and delivery screens
Back ==
  /\ currentScreen \in {"location", "cart", "quantity", "delivery"}
  /\ goToPreviousScreen
  /\ UNCHANGED << posCart, taxVars, selectionVars, availableCompanies, cartItems,
                  pricingVars, deliveryVars, termsVars, detailVars,
                  validationErrors, createdOrder, tasks, subs, lastNext >>

\* ------------------------------------------------------------ cart screen
\* "Return to Location Selection" / "Modify Company Location"
ReturnToLocation ==
  /\ currentScreen = "cart"
  /\ currentScreen' = "location"
  /\ UNCHANGED << posCart, taxVars, selectionVars, availableCompanies, cartItems,
                  pricingVars, deliveryVars, termsVars, detailVars,
                  validationErrors, createdOrder, tasks, subs, lastNext >>

\* "Modify Quantity" on a product row
ModifyQuantity ==
  \E i \in DOMAIN cartItems :
    /\ currentScreen = "cart"
    /\ ~isSurchargeItem(cartItems[i])
    /\ selectedProduct' = cartItems[i]
    /\ productDetailSource' = "cart"
    /\ currentScreen' = "product-detail"
    /\ UNCHANGED << posCart, taxVars, selectionVars, availableCompanies, cartItems,
                    pricingVars, deliveryVars, termsVars, validationErrors,
                    createdOrder, tasks, subs, lastNext >>

\* "Resolve Quantity Issues", rendered while the validator is invalid
ResolveQuantityIssues ==
  /\ currentScreen = "cart"
  /\ cartItems # <<>>
  /\ ~quantityValidation.isValid
  /\ currentScreen' = "quantity"
  /\ UNCHANGED << posCart, taxVars, selectionVars, availableCompanies, cartItems,
                  pricingVars, deliveryVars, termsVars, detailVars,
                  validationErrors, createdOrder, tasks, subs, lastNext >>

\* "Proceed to Fulfillment Details"
ProceedToFulfillment ==
  /\ currentScreen = "cart"
  /\ cartItems # <<>> /\ quantityValidation.isValid
  /\ goToNextScreen
  /\ UNCHANGED << posCart, taxVars, selectionVars, availableCompanies, cartItems,
                  pricingVars, deliveryVars, termsVars, detailVars,
                  validationErrors, createdOrder, tasks, subs, lastNext >>

\* -------------------------------------------------------- quantity screen
\* the itemsWithIssues filter of the quantity screen
HasQuantityIssue(item) ==
  LET r == quantityRules[item.productId] IN
  /\ r # Absent
  /\ \/ item.quantity < r.minQuantity
     \/ r.maxQuantity # 0 /\ item.quantity > r.maxQuantity
     \/ r.increment # 0 /\ (item.quantity - r.minQuantity) % r.increment # 0

\* the top "Back" button: setCurrentScreen('cart')
QuantityBackToCart ==
  /\ currentScreen = "quantity"
  /\ currentScreen' = "cart"
  /\ UNCHANGED << posCart, taxVars, selectionVars, availableCompanies, cartItems,
                  pricingVars, deliveryVars, termsVars, detailVars,
                  validationErrors, createdOrder, tasks, subs, lastNext >>

\* "Adjust Quantity" on a listed item
AdjustQuantity ==
  \E i \in DOMAIN cartItems :
    /\ currentScreen = "quantity"
    /\ HasQuantityIssue(cartItems[i])
    /\ selectedProduct' = cartItems[i]
    /\ productDetailSource' = "quantity"
    /\ currentScreen' = "product-detail"
    /\ UNCHANGED << posCart, taxVars, selectionVars, availableCompanies, cartItems,
                    pricingVars, deliveryVars, termsVars, validationErrors,
                    createdOrder, tasks, subs, lastNext >>

\* "Continue", disabled while the validator is invalid
ContinueUngated ==
  /\ currentScreen = "quantity"
  /\ goToNextScreen
  /\ UNCHANGED << posCart, taxVars, selectionVars, availableCompanies, cartItems,
                  pricingVars, deliveryVars, termsVars, detailVars,
                  validationErrors, createdOrder, tasks, subs, lastNext >>

Continue ==
  /\ currentScreen = "quantity"
  /\ quantityValidation.isValid
  /\ goToNextScreen
  /\ UNCHANGED << posCart, taxVars, selectionVars, availableCompanies, cartItems,
                  pricingVars, deliveryVars, termsVars, detailVars,
                  validationErrors, createdOrder, tasks, subs, lastNext >>

\* -------------------------------------------------- product-detail screen
Max(a, b) == IF a >= b THEN a ELSE b

\* useCart.updateItemQuantity
updateItemQuantity(items, itemId, newQuantity) ==
  [i \in DOMAIN items |->
    IF items[i].id = itemId
      THEN [items[i] EXCEPT !.quantity = Max(1, newQuantity)]
      ELSE items[i]]

\* rules?.increment || 1, rules?.minQuantity || 1, rules?.maxQuantity
RuleIncrement(r) == IF r # Absent /\ r.increment # 0 THEN r.increment ELSE 1
RuleMinimum(r) == IF r # Absent /\ r.minQuantity # 0 THEN r.minQuantity ELSE 1
RuleMaximum(r) == IF r # Absent THEN r.maxQuantity ELSE 0

\* a product-detail screen that always returns to the cart
DetailOriginCart == "cart"

\* the quantity the "-" control sets, through updateItemQuantity
DecreasedQuantity(quantity, rules) ==
  Max(1, Max(quantity - RuleIncrement(rules), RuleMinimum(rules)))

\* the quantity the "+" control sets; the control is disabled at the maximum
\* and does nothing when the step would pass it
IncreasedQuantity(quantity, rules) ==
  LET maxQty == RuleMaximum(rules)
      newQty == quantity + RuleIncrement(rules)
  IN IF maxQty # 0 /\ quantity >= maxQty THEN quantity
     ELSE IF maxQty = 0 \/ newQty <= maxQty THEN Max(1, newQty)
     ELSE quantity

\* where the product-detail screen returns to
DetailOrigin == IF productDetailSource = "cart" THEN "cart" ELSE "quantity"

\* the "Back" and "Update Cart" buttons
LeaveProductDetail ==
  /\ currentScreen = "product-detail"
  /\ selectedProduct # Absent
  /\ currentScreen' = DetailOrigin
  /\ UNCHANGED << posCart, taxVars, selectionVars, availableCompanies, cartItems,
                  pricingVars, deliveryVars, termsVars, detailVars,
                  validationErrors, createdOrder, tasks, subs, lastNext >>

\* the "-" control
DecreaseQuantity ==
  /\ currentScreen = "product-detail"
  /\ selectedProduct # Absent
  /\ LET rules == quantityRules[selectedProduct.productId]
         newQty == Max(selectedProduct.quantity - RuleIncrement(rules),
                       RuleMinimum(rules))
     IN /\ cartItems' = updateItemQuantity(cartItems, selectedProduct.id, newQty)
        /\ selectedProduct' = [selectedProduct EXCEPT !.quantity = newQty]
  /\ UNCHANGED << posCart, taxVars, currentScreen, selectionVars, availableCompanies,
                  pricingVars, deliveryVars, termsVars, productDetailSource,
                  createdOrder, tasks, subs, lastNext >>
  /\ SyncValidationErrors

\* the "+" control, disabled at the maximum
IncreaseQuantity ==
  /\ currentScreen = "product-detail"
  /\ selectedProduct # Absent
  /\ LET rules == quantityRules[selectedProduct.productId]
         maxQty == RuleMaximum(rules)
         newQty == selectedProduct.quantity + RuleIncrement(rules)
     IN /\ maxQty # 0 => selectedProduct.quantity < maxQty
        /\ newQty <= MaxQty
        /\ IF maxQty = 0 \/ newQty <= maxQty
             THEN /\ cartItems' =
                       updateItemQuantity(cartItems, selectedProduct.id, newQty)
                  /\ selectedProduct' = [selectedProduct EXCEPT !.quantity = newQty]
             ELSE UNCHANGED << cartItems, selectedProduct >>
  /\ UNCHANGED << posCart, taxVars, currentScreen, selectionVars, availableCompanies,
                  pricingVars, deliveryVars, termsVars, productDetailSource,
                  createdOrder, tasks, subs, lastNext >>
  /\ SyncValidationErrors

\* "Remove from Cart"
RemoveFromCart ==
  /\ currentScreen = "product-detail"
  /\ selectedProduct # Absent
  /\ cartItems' = SelectSeq(cartItems, LAMBDA it : it.id # selectedProduct.id)
  /\ currentScreen' = DetailOrigin
  /\ UNCHANGED << posCart, taxVars, selectionVars, availableCompanies, pricingVars,
                  deliveryVars, termsVars, detailVars, createdOrder, tasks, subs, lastNext >>
  /\ SyncValidationErrors

\* -------------------------------------------------------- delivery screen
\* "Return to Transaction Review"
ReturnToTransactionReview ==
  /\ currentScreen = "delivery"
  /\ currentScreen' = IF quantityValidation.isValid THEN "cart" ELSE "quantity"
  /\ UNCHANGED << posCart, taxVars, selectionVars, availableCompanies, cartItems,
                  pricingVars, deliveryVars, termsVars, detailVars,
                  validationErrors, createdOrder, tasks, subs, lastNext >>

SetPoNumber ==
  \E po \in PoInputs :
    /\ currentScreen = "delivery"
    /\ poNumber' = po
    /\ UNCHANGED << posCart, taxVars, currentScreen, selectionVars, availableCompanies,
                    cartItems, pricingVars, deliveryMethod, customDeliveryFee,
                    customSurcharge, termsVars, detailVars, validationErrors,
                    createdOrder, tasks, subs, lastNext >>

SetDeliveryMethod ==
  \E m \in {"pickup", "custom"} :
    /\ currentScreen = "delivery"
    /\ deliveryMethod' = m
    /\ UNCHANGED << posCart, taxVars, currentScreen, selectionVars, availableCompanies,
                    cartItems, pricingVars, poNumber, customDeliveryFee,
                    customSurcharge, termsVars, detailVars, validationErrors,
                    createdOrder, tasks, subs, lastNext >>

\* the fee field is rendered for a method other than pickup; the operator
\* types one of `inputs`
EnterDeliveryFee(inputs) ==
  \E f \in inputs :
    /\ currentScreen = "delivery"
    /\ deliveryMethod # "pickup"
    /\ customDeliveryFee' = f
    /\ UNCHANGED << posCart, taxVars, currentScreen, selectionVars, availableCompanies,
                    cartItems, pricingVars, poNumber, deliveryMethod,
                    customSurcharge, termsVars, detailVars, validationErrors,
                    createdOrder, tasks, subs, lastNext >>

SetCustomDeliveryFee == EnterDeliveryFee(FeeInputs)

EnterSurcharge(inputs) ==
  \E f \in inputs :
    /\ currentScreen = "delivery"
    /\ customSurcharge' = f
    /\ UNCHANGED << posCart, taxVars, currentScreen, selectionVars, availableCompanies,
                    cartItems, pricingVars, poNumber, deliveryMethod,
                    customDeliveryFee, termsVars, detailVars, validationErrors,
                    createdOrder, tasks, subs, lastNext >>

SetCustomSurcharge == EnterSurcharge(FeeInputs)

\* ---------------------------------------------------- confirmation screen
\* "Return to Fulfillment Details"
ReturnToFulfillmentDetails ==
  /\ currentScreen = "confirmation"
  /\ currentScreen' = "delivery"
  /\ UNCHANGED << posCart, taxVars, selectionVars, availableCompanies, cartItems,
                  pricingVars, deliveryVars, termsVars, detailVars,
                  validationErrors, createdOrder, tasks, subs, lastNext >>

\* "Create New Transaction"
resetOrder ==
  /\ currentScreen = "confirmation"
  /\ currentScreen' = "customer"
  /\ selectedCustomer' = NULL
  /\ selectedLocation' = NULL
  /\ cartItems' = <<>>
  /\ poNumber' = <<>>
  /\ createdOrder' = Absent
  /\ validationErrors' = <<>>
  /\ UNCHANGED << posCart, taxVars, selectedCompany, availableCompanies, pricingVars,
                  deliveryMethod, customDeliveryFee, customSurcharge, termsVars,
                  detailVars, tasks, subs, lastNext >>

\* --------------------------------------------------------- order assembly
DeliveryFeeTitle == <<"D","e","l","i","v","e","r","y"," ","F","e","e">>
CustomSurchargeTitle ==
  <<"C","u","s","t","o","m"," ","S","u","r","c","h","a","r","g","e">>

Attr(k, v) == [key |-> k, value |-> v]

HasAttr(item, k) == \E a \in DOMAIN item.customAttributes : item.customAttributes[a].key = k

\* Array.prototype.find on the attribute bag
FindAttr(item, k) ==
  item.customAttributes[
    CHOOSE a \in DOMAIN item.customAttributes :
      /\ item.customAttributes[a].key = k
      /\ \A b \in 1..(a - 1) : item.customAttributes[b].key # k]

isTaxableSurcharge(item) ==
  IF ~isSurchargeItem(item) THEN FALSE
  ELSE IF HasAttr(item, "Taxable")
    THEN FindAttr(item, "Taxable").value \in {"Yes", "true"}
    ELSE TRUE

getSurchargeType(item) ==
  IF ~isSurchargeItem(item) THEN NULL
  ELSE IF HasAttr(item, "Type") THEN FindAttr(item, "Type").value
  ELSE IF includes(toLowerCase(item.name), <<"d","e","l","i","v","e","r","y">>)
    THEN "Delivery Fee"
  ELSE IF includes(toLowerCase(item.name), <<"r","u","s","h">>)
    THEN "Rush Order Fee"
  ELSE IF includes(toLowerCase(item.name), <<"h","a","n","d","l","i","n","g">>)
    THEN "Handling Fee"
  ELSE "Custom Surcharge"

\* the cart split into products and surcharges
productItems == SelectSeq(cartItems, LAMBDA item : ~isSurchargeItem(item))
surchargeItems == SelectSeq(cartItems, LAMBDA item : isSurchargeItem(item))

\* one draft-order line per cart item
ItemLine(item, pricing) ==
  IF isSurchargeItem(item)
    THEN [title |-> item.name,
          originalUnitPrice |-> UnitPrice(item, pricing),
          quantity |-> 1,
          customAttributes |->
            << Attr("Type", "Surcharge"),
               Attr("SurchargeType",
                    IF getSurchargeType(item) # NULL
                      THEN getSurchargeType(item) ELSE "Custom Surcharge"),
               Attr("Taxable", IF isTaxableSurcharge(item) THEN "Yes" ELSE "No"),
               Attr("Description", "Additional fee") >>]
    ELSE [title |-> item.name,
          originalUnitPrice |-> UnitPrice(item, pricing),
          quantity |-> item.quantity,
          customAttributes |->
            << Attr("Product ID", item.productId),
               Attr("B2B Price",
                    IF pricing[item.productId] # Absent THEN "Yes" ELSE "No") >>]

\* the lineItems array createB2BOrder builds
AssembleLineItems(items, pricing, method, fee, surcharge) ==
  [i \in DOMAIN items |-> ItemLine(items[i], pricing)]
    \o (IF fee > 0
          THEN << [title |-> DeliveryFeeTitle,
                   originalUnitPrice |-> fee,
                   quantity |-> 1,
                   customAttributes |->
                     << Attr("Type", "Delivery Fee"), Attr("Method", method) >>] >>
          ELSE <<>>)
    \o (IF surcharge > 0
          THEN << [title |-> CustomSurchargeTitle,
                   originalUnitPrice |-> surcharge,
                   quantity |-> 1,
                   customAttributes |->
                     << Attr("Type", "Custom Surcharge"),
                        Attr("Description", "Additional fee") >>] >>
          ELSE <<>>)

\* ----------------------------------------------------- submission pipeline
Err(kind) == [item |-> 0, kind |-> kind]

Slots == 1..MaxInFlight
InFlightPcs == {"create", "retry", "paymentTerms", "complete", "fulfillment"}
FreeSlots == {n \in Slots : subs[n].pc \notin InFlightPcs}

\* a request to the gateway, with the answer the caller got once it has one
Request(op, terms, lineItems) ==
  [op |-> op, paymentTerms |-> terms, lineItems |-> lineItems, answer |-> "pending"]

CreateRequest(terms, lineItems) == Request("draftOrderCreate", terms, lineItems)

Answered(log, answer) == [log EXCEPT ![Len(log)].answer = answer]

\* A slot whose invocation has returned keeps the operations it requested and
\* their answers, without the line items
Ended(pc, log) ==
  [pc |-> pc,
   log |-> [i \in DOMAIN log |-> [log[i] EXCEPT !.lineItems = <<>>]]]

\* The values createB2BOrder closes over when the button is pressed
Snapshot ==
  [customer |-> selectedCustomer,
   location |-> selectedLocation,
   poNumber |-> poNumber,
   quantityValidation |-> quantityValidation,
   paymentTerms |-> selectedPaymentTerms,
   total |-> orderSummary.finalTotal,
   lineItems |-> AssembleLineItems(cartItems, b2bPricing, deliveryMethod,
                                   deliveryFee, surchargeAmount)]

\* createB2BOrder's checks before anything is sent: the errors to show, none if all pass
PreconditionErrorNoFormat(snap) ==
  IF snap.customer = NULL \/ snap.location = NULL THEN << Err("selectBoth") >>
  ELSE IF snap.poNumber = <<>> \/ trim(snap.poNumber) = <<>>
    THEN << Err("poRequired") >>
  ELSE IF ~snap.quantityValidation.isValid THEN snap.quantityValidation.errors
  ELSE <<>>

PreconditionError(snap) ==
  IF snap.customer = NULL \/ snap.location = NULL THEN << Err("selectBoth") >>
  ELSE IF snap.poNumber = <<>> \/ trim(snap.poNumber) = <<>>
    THEN << Err("poRequired") >>
  ELSE IF ~validatePONumber(snap.poNumber) THEN << Err("poFormat") >>
  ELSE IF ~snap.quantityValidation.isValid THEN snap.quantityValidation.errors
  ELSE <<>>

\* "Process Transaction": createB2BOrder up to its first await
createB2BOrder ==
  /\ currentScreen = "delivery"
  /\ cartItems # <<>> /\ quantityValidation.isValid
  /\ poNumber # <<>> /\ trim(poNumber) # <<>>
  /\ FreeSlots # {}
  /\ LET n == CHOOSE k \in FreeSlots : \A j \in FreeSlots : k <= j
         snap == Snapshot
         error == PreconditionError(snap)
     IN IF error # <<>>
          THEN /\ validationErrors' = error
               /\ subs' = [subs EXCEPT ![n] = Ended("rejected", <<>>)]
          ELSE /\ subs' = [subs EXCEPT ![n] =
                             [pc |-> "create", snap |-> snap,
                              log |-> << CreateRequest(snap.paymentTerms,
                                                       snap.lineItems) >>]]
               /\ UNCHANGED validationErrors
  /\ UNCHANGED << posCart, taxVars, currentScreen, selectionVars, availableCompanies,
                  cartItems, pricingVars, deliveryVars, termsVars, detailVars,
                  createdOrder, tasks, lastNext >>

\* what the gateway can answer to a draftOrderCreate request
CreateResponses ==
  {"httpError", "graphqlErrors", "paymentTermsError", "userErrors",
   "noDraftOrder", "created", "createdNoId"}

\* result.data.draftOrderCreate.userErrors mentions payment terms
hasPaymentTermsError(response) == response = "paymentTermsError"

\* the catch block of a createB2BOrder that also abandons the session
SubmissionFailedResetting(n, response) ==
  /\ validationErrors' = << Err("createFailed") >>
  /\ subs' = [subs EXCEPT ![n] = Ended("failed", Answered(subs[n].log, response))]
  /\ currentScreen' = "customer"
  /\ UNCHANGED createdOrder

\* a catch block that swallows the error
SubmissionFailedSilently(n, response) ==
  /\ subs' = [subs EXCEPT ![n] = Ended("failed", Answered(subs[n].log, response))]
  /\ UNCHANGED << validationErrors, currentScreen, createdOrder >>

\* the catch block of createB2BOrder
SubmissionFailed(n, response) ==
  /\ validationErrors' = << Err("createFailed") >>
  /\ subs' = [subs EXCEPT ![n] = Ended("failed", Answered(subs[n].log, response))]
  /\ UNCHANGED << currentScreen, createdOrder >>

\* the order data shown on the confirmation screen
OrderData(snap) ==
  [poNumber |-> snap.poNumber, total |-> snap.total, status |-> "draft"]

\* createB2BOrder from the parsed create result to its next await
CreateResultHandled(n, response) ==
  IF response \in {"graphqlErrors", "paymentTermsError", "userErrors", "noDraftOrder"}
    THEN SubmissionFailed(n, response)
    ELSE /\ createdOrder' = OrderData(subs[n].snap)
         /\ validationErrors' = <<>>
         /\ IF response = "created"
              THEN /\ subs' = [subs EXCEPT
                                 ![n].pc = "paymentTerms",
                                 ![n].log = Append(Answered(@, response),
                                                   Request("paymentTerms", NULL, <<>>))]
                   /\ UNCHANGED currentScreen
              ELSE /\ subs' = [subs EXCEPT
                                 ![n] = Ended("done", Answered(subs[n].log, response))]
                   /\ currentScreen' = "confirmation"

\* a retry that sends the input with the payment terms again
RetryKeepingTerms(n, response) ==
  /\ subs' = [subs EXCEPT
                ![n].pc = "retry",
                ![n].log = Append(Answered(@, response),
                                  CreateRequest(subs[n].snap.paymentTerms,
                                                subs[n].snap.lineItems))]
  /\ UNCHANGED << currentScreen, validationErrors, createdOrder >>

\* the retry with inputWithoutPaymentTerms
RetryWithoutPaymentTerms(n, response) ==
  /\ subs' = [subs EXCEPT
                ![n].pc = "retry",
                ![n].log = Append(Answered(@, response),
                                  CreateRequest(NULL, subs[n].snap.lineItems))]
  /\ UNCHANGED << currentScreen, validationErrors, createdOrder >>

\* the first draftOrderCreate request resolves
CreateResponded ==
  \E n \in Slots, response \in CreateResponses :
    /\ subs[n].pc = "create"
    /\ IF response = "httpError" THEN SubmissionFailed(n, response)
       ELSE IF hasPaymentTermsError(response) /\ subs[n].snap.paymentTerms # NULL
         THEN RetryWithoutPaymentTerms(n, response)
       ELSE CreateResultHandled(n, response)
    /\ UNCHANGED << posCart, taxVars, selectionVars, availableCompanies, cartItems,
                    pricingVars, deliveryVars, termsVars, detailVars, tasks,
                    lastNext >>

\* the retried draftOrderCreate request resolves
RetryResponded ==
  \E n \in Slots, response \in CreateResponses :
    /\ subs[n].pc = "retry"
    /\ IF response = "httpError" THEN SubmissionFailed(n, response)
       ELSE CreateResultHandled(n, response)
    /\ UNCHANGED << posCart, taxVars, selectionVars, availableCompanies, cartItems,
                    pricingVars, deliveryVars, termsVars, detailVars, tasks,
                    lastNext >>

\* fetchPaymentTerms resolves (with the terms, or with null after a failure),
\* and completeDraftOrder is called
PaymentTermsResponded ==
  \E n \in Slots, answer \in {"fetched", "failed"} :
    /\ subs[n].pc = "paymentTerms"
    /\ subs' = [subs EXCEPT
                  ![n].pc = "complete",
                  ![n].log = Append(Answered(@, answer),
                                    Request("draftOrderComplete", NULL, <<>>))]
    /\ UNCHANGED << posCart, taxVars, currentScreen, selectionVars, availableCompanies,
                    cartItems, pricingVars, deliveryVars, termsVars, detailVars,
                    validationErrors, createdOrder, tasks, lastNext >>

\* completeDraftOrder resolves with the completed order
CompleteSucceeded ==
  \E n \in Slots :
    /\ subs[n].pc = "complete"
    /\ createdOrder' =
         IF createdOrder # Absent
           THEN [createdOrder EXCEPT !.status = "completed"]
           ELSE createdOrder
    /\ subs' = [subs EXCEPT
                  ![n].pc = "fulfillment",
                  ![n].log = Append(Answered(@, "completed"),
                                    Request("fulfillmentCreate", NULL, <<>>))]
    /\ UNCHANGED << posCart, taxVars, currentScreen, selectionVars, availableCompanies,
                    cartItems, pricingVars, deliveryVars, termsVars, detailVars,
                    validationErrors, tasks, lastNext >>

\* a failed completion that goes on to the fulfillment
CompleteFailedFulfilling ==
  \E n \in Slots :
    /\ subs[n].pc = "complete"
    /\ subs' = [subs EXCEPT
                  ![n].pc = "fulfillment",
                  ![n].log = Append(Answered(@, "failed"),
                                    Request("fulfillmentCreate", NULL, <<>>))]
    /\ UNCHANGED << posCart, taxVars, currentScreen, selectionVars, availableCompanies,
                    cartItems, pricingVars, deliveryVars, termsVars, detailVars,
                    validationErrors, createdOrder, tasks, lastNext >>

\* a failed completion that fails the submission
CompleteFailedAsFailure ==
  \E n \in Slots :
    /\ subs[n].pc = "complete"
    /\ SubmissionFailed(n, "failed")
    /\ UNCHANGED << posCart, taxVars, selectionVars, availableCompanies, cartItems,
                    pricingVars, deliveryVars, termsVars, detailVars, tasks,
                    lastNext >>

\* completeDraftOrder resolves with null (errors, user errors, exception)
CompleteFailed ==
  \E n \in Slots :
    /\ subs[n].pc = "complete"
    /\ subs' = [subs EXCEPT ![n] = Ended("done", Answered(subs[n].log, "failed"))]
    /\ currentScreen' = "confirmation"
    /\ UNCHANGED << posCart, taxVars, selectionVars, availableCompanies, cartItems,
                    pricingVars, deliveryVars, termsVars, detailVars,
                    validationErrors, createdOrder, tasks, lastNext >>

\* createFulfillment resolves (true, or false/null after a failure)
FulfillmentResponded ==
  \E n \in Slots, answer \in {"fulfilled", "failed"} :
    /\ subs[n].pc = "fulfillment"
    /\ subs' = [subs EXCEPT ![n] = Ended("done", Answered(subs[n].log, answer))]
    /\ currentScreen' = "confirmation"
    /\ UNCHANGED << posCart, taxVars, selectionVars, availableCompanies, cartItems,
                    pricingVars, deliveryVars, termsVars, detailVars,
                    validationErrors, createdOrder, tasks, lastNext >>

\* -------------------------------------------------------- useTaxCalculation
\* Rates are kept in units of 1/RateScale (0.0875 is 8750); the amounts the
\* hook returns are kept in units of 1/RateScale of a cent.
RateScale == 100000

\* the locations the hook is given, and the address of each
TaxLocations == {"l1", "l2", "l3", "l4", "l5"}

LocationAddress(loc) ==
  CASE loc = "l1" -> [country |-> "US", province |-> "CA"]
    [] loc = "l2" -> [country |-> "US", province |-> "OR"]
    [] loc = "l3" -> [country |-> "GB", province |-> NULL]
    [] loc = "l4" -> [country |-> "FR", province |-> NULL]
    [] OTHER -> Absent

StoreTaxSettingsValues ==
  [taxesIncluded : BOOLEAN, taxShipping : BOOLEAN]

Region(rate, title) == [rate |-> rate, title |-> title]

\* the country and province switch of calculateEnhancedTax
RegionTax(address) ==
  LET country == IF address = Absent THEN NULL ELSE address.country
      province == IF address = Absent THEN NULL ELSE address.province
  IN CASE country = "US" ->
            (CASE province = "CA" -> Region(8750, "CA Sales Tax")
               [] province = "NY" -> Region(8000, "NY Sales Tax")
               [] province = "TX" -> Region(6250, "TX Sales Tax")
               [] province = "FL" -> Region(6000, "FL Sales Tax")
               [] province = "WA" -> Region(6500, "WA Sales Tax")
               [] province = "OR" -> Region(0, "OR Sales Tax")
               [] OTHER -> Region(7000, "US Sales Tax"))
       [] country = "CA" ->
            (CASE province = "BC" -> Region(12000, "BC HST")
               [] province = "ON" -> Region(13000, "ON HST")
               [] province = "AB" -> Region(5000, "AB GST")
               [] province = "QC" -> Region(14975, "QC GST+QST")
               [] OTHER -> Region(10000, "Canada Tax"))
       [] country = "GB" -> Region(20000, "UK VAT")
       [] country = "AU" -> Region(10000, "AU GST")
       [] OTHER -> Region(0, "Tax")

ExemptTaxData ==
  [rate |-> 0, amount |-> 0, title |-> "Tax Exempt", isIncluded |-> FALSE,
   shippingTaxable |-> FALSE]

\* the value calculateEnhancedTax hands to setTaxData
EnhancedTax(location, settings, exempt) ==
  IF location = NULL \/ settings = Absent \/ exempt
    THEN ExemptTaxData
    ELSE LET region == RegionTax(LocationAddress(location)) IN
         [rate |-> region.rate, amount |-> 0, title |-> region.title,
          isIncluded |-> settings.taxesIncluded,
          shippingTaxable |-> settings.taxShipping]

\* the effect: it runs after the render whose inputs differ from the last one's
calculateEnhancedTax ==
  /\ effectPending
  /\ taxData' = EnhancedTax(selectedLocation, storeTaxSettings, customerTaxExempt)
  /\ effectPending' = FALSE
  /\ UNCHANGED << posCart, currentScreen, selectionVars, availableCompanies,
                  cartItems, pricingVars, deliveryVars, termsVars, detailVars,
                  validationErrors, createdOrder, tasks, subs, lastNext,
                  storeTaxSettings, customerTaxExempt >>

\* amount - amount / (1 + rate) for an amount in cents, to a thousandth of a cent
TaxPortion(amount, rate) ==
  LET n == amount * rate
      d == RateScale + rate
  IN (n \div d) * RateScale + (((n % d) * 1000) \div d) * 100

taxAmount ==
  IF taxData.isIncluded
    THEN TaxPortion(Subtotal(cartItems, b2bPricing), taxData.rate)
    ELSE Subtotal(cartItems, b2bPricing) * taxData.rate

shippingTaxAmount ==
  IF taxData.shippingTaxable /\ ~customerTaxExempt
    THEN IF taxData.isIncluded
           THEN TaxPortion(deliveryFee, taxData.rate)
           ELSE deliveryFee * taxData.rate
    ELSE 0

\* the hook's finalTotal
finalTotal ==
  IF taxData.isIncluded
    THEN (Subtotal(cartItems, b2bPricing) + deliveryFee) * RateScale
    ELSE (Subtotal(cartItems, b2bPricing) + deliveryFee) * RateScale
           + taxAmount + shippingTaxAmount

\* The renders of the component that calls the hook: one of the hook's
\* arguments has a new value.  The effect of a render runs before the next one.
TaxCarts ==
  {<<>>} \cup
  { [processCartItems(cart) EXCEPT ![2].quantity = q] :
      cart \in PosCarts, q \in 1..2 }

TaxPricing ==
  { fetchB2BPricingForCart("l1", Products, ok).pricing :
      ok \in PricingOutcomes(Products) }

CartItemsChanged ==
  \E items \in TaxCarts \ {cartItems} :
    /\ ~effectPending
    /\ cartItems' = items
    /\ effectPending' = TRUE
    /\ UNCHANGED << posCart, currentScreen, selectionVars, availableCompanies,
                    pricingVars, deliveryVars, termsVars, detailVars,
                    validationErrors, createdOrder, tasks, subs, lastNext,
                    storeTaxSettings, customerTaxExempt, taxData >>

PricingChanged ==
  \E pricing \in TaxPricing \ {b2bPricing} :
    /\ ~effectPending
    /\ b2bPricing' = pricing
    /\ effectPending' = TRUE
    /\ UNCHANGED << posCart, currentScreen, selectionVars, availableCompanies,
                    cartItems, quantityRules, deliveryVars, termsVars,
                    detailVars, validationErrors, createdOrder, tasks, subs,
                    lastNext, storeTaxSettings, customerTaxExempt, taxData >>

LocationChanged ==
  \E location \in (TaxLocations \cup {NULL}) \ {selectedLocation} :
    /\ ~effectPending
    /\ selectedLocation' = location
    /\ effectPending' = TRUE
    /\ UNCHANGED << posCart, currentScreen, selectedCustomer, selectedCompany,
                    availableCompanies, cartItems, pricingVars, deliveryVars,
                    termsVars, detailVars, validationErrors, createdOrder,
                    tasks, subs, lastNext, storeTaxSettings, customerTaxExempt,
                    taxData >>

StoreTaxSettingsChanged ==
  \E settings \in StoreTaxSettingsValues \ {storeTaxSettings} :
    /\ ~effectPending
    /\ storeTaxSettings' = settings
    /\ effectPending' = TRUE
    /\ UNCHANGED << posCart, currentScreen, selectionVars, availableCompanies,
                    cartItems, pricingVars, deliveryVars, termsVars, detailVars,
                    validationErrors, createdOrder, tasks, subs, lastNext,
                    customerTaxExempt, taxData >>

CustomerTaxExemptChanged ==
  /\ ~effectPending
  /\ customerTaxExempt' = ~customerTaxExempt
  /\ effectPending' = TRUE
  /\ UNCHANGED << posCart, currentScreen, selectionVars, availableCompanies,
                  cartItems, pricingVars, deliveryVars, termsVars, detailVars,
                  validationErrors, createdOrder, tasks, subs, lastNext,
                  storeTaxSettings, taxData >>

\* deliveryFee is not among the effect's dependencies
DeliveryFeeChanged ==
  \E m \in {"pickup", "custom"}, f \in FeeInputs :
    /\ ~effectPending
    /\ <<m, f>> # <<deliveryMethod, customDeliveryFee>>
    /\ deliveryMethod' = m
    /\ customDeliveryFee' = f
    /\ UNCHANGED << posCart, currentScreen, selectionVars, availableCompanies,
                    cartItems, pricingVars, poNumber, customSurcharge,
                    termsVars, detailVars, validationErrors, createdOrder,
                    tasks, subs, lastNext, taxVars >>

SurchargeChanged ==
  \E f \in FeeInputs \ {customSurcharge} :
    /\ ~effectPending
    /\ customSurcharge' = f
    /\ UNCHANGED << posCart, currentScreen, selectionVars, availableCompanies,
                    cartItems, pricingVars, poNumber, deliveryMethod,
                    customDeliveryFee, termsVars, detailVars, validationErrors,
                    createdOrder, tasks, subs, lastNext, taxVars >>

\* --------------------------------------------------------- specifications
\* The ordering scenario: the operator selects, goes forward and back, types a
\* PO number, submits, and starts over from the confirmation screen.
Next ==
  \/ PaymentTermsTemplatesLoaded
  \/ CustomerCompaniesFetched
  \/ CustomerPricingFetched
  \/ CustomerNoCompany
  \/ LocationPricingFetched
  \/ CartItemsLoaded
  \/ CompaniesAutoLoaded
  \/ SelectCustomer
  \/ handleCustomerSelection
  \/ SelectLocation
  \/ ProceedToOrderReview
  \/ Back
  \/ ProceedToFulfillment
  \/ SetPoNumber
  \/ createB2BOrder
  \/ CreateResponded
  \/ RetryResponded
  \/ PaymentTermsResponded
  \/ CompleteSucceeded
  \/ CompleteFailed
  \/ FulfillmentResponded
  \/ ReturnToFulfillmentDetails
  \/ resetOrder

Spec == Init /\ [][Next]_vars

\* The review scenario: the operator selects, works on the cart, the quantity
\* screen and the product-detail screen, and sets the delivery method and the
\* fees; nothing is submitted.
NextReview ==
  \/ PaymentTermsTemplatesLoaded
  \/ CustomerCompaniesFetched
  \/ CustomerPricingFetched
  \/ CustomerNoCompany
  \/ LocationPricingFetched
  \/ CartItemsLoaded
  \/ CompaniesAutoLoaded
  \/ SelectCustomer
  \/ handleCustomerSelection
  \/ SelectLocation
  \/ ProceedToOrderReview
  \/ Back
  \/ ReturnToLocation
  \/ ModifyQuantity
  \/ ResolveQuantityIssues
  \/ ProceedToFulfillment
  \/ QuantityBackToCart
  \/ AdjustQuantity
  \/ Continue
  \/ LeaveProductDetail
  \/ DecreaseQuantity
  \/ IncreaseQuantity
  \/ RemoveFromCart
  \/ ReturnToTransactionReview
  \/ SetDeliveryMethod
  \/ SetCustomDeliveryFee
  \/ SetCustomSurcharge

SpecReview == Init /\ [][NextReview]_vars

\* goToNextScreen as a function of the screen and of the validator's verdict:
\* it is called once, on any screen, with any quantity of the first cart line
\* and with or without the location's quantity rules.
InitNext ==
  /\ posCart \in PosCarts
  /\ currentScreen \in {"customer", "location", "cart", "quantity", "delivery"}
  /\ selectedCustomer \in Customers
  /\ selectedLocation \in Locations
  /\ selectedCompany = selectedLocation
  /\ availableCompanies = Locations
  /\ \E q \in 1..MaxQty :
       cartItems = updateItemQuantity(processCartItems(posCart), 1, q)
  /\ \E ok \in PricingOutcomes(Products) :
       /\ quantityRules = fetchB2BPricingForCart(selectedLocation, Products, ok).rules
       /\ b2bPricing = fetchB2BPricingForCart(selectedLocation, Products, ok).pricing
  /\ poNumber = <<>>
  /\ deliveryMethod = "pickup"
  /\ customDeliveryFee = <<"0", ".", "0", "0">>
  /\ customSurcharge = <<"0", ".", "0", "0">>
  /\ \/ paymentTermsTemplates = "none" /\ selectedPaymentTerms = NULL
     \/ paymentTermsTemplates = "loaded" /\ selectedPaymentTerms \in PaymentTermsTemplates
  /\ selectedProduct = Absent
  /\ productDetailSource = "cart"
  /\ validationErrors =
       IF quantityValidation.isValid THEN <<>> ELSE quantityValidation.errors
  /\ createdOrder = Absent
  /\ tasks = <<>>
  /\ subs = [n \in Slots |-> IdleSub]
  /\ lastNext = NoCall
  /\ storeTaxSettings = Absent
  /\ customerTaxExempt = FALSE
  /\ taxData = InitialTaxData
  /\ effectPending = TRUE

next ==
  /\ lastNext = NoCall
  /\ lastNext' = [screen |-> currentScreen, isValid |-> quantityValidation.isValid]
  /\ goToNextScreen
  /\ UNCHANGED << posCart, taxVars, selectionVars, availableCompanies, cartItems,
                  pricingVars, deliveryVars, termsVars, detailVars,
                  validationErrors, createdOrder, tasks, subs >>

SpecNext == InitNext /\ [][next]_vars

\* The totals scenario: useTaxCalculation and the order totals as functions of
\* their inputs.  The calling component renders with any cart, pricing,
\* location, store tax settings, exemption flag and fees, in any order.
InitTax ==
  /\ posCart \in PosCarts
  /\ currentScreen = "delivery"
  /\ selectedCustomer \in Customers
  /\ selectedLocation = NULL
  /\ selectedCompany = NULL
  /\ availableCompanies = {}
  /\ cartItems = <<>>
  /\ quantityRules = NoRules
  /\ b2bPricing = NoPricing
  /\ poNumber = <<>>
  /\ deliveryMethod = "pickup"
  /\ customDeliveryFee = <<"0", ".", "0", "0">>
  /\ customSurcharge = <<"0", ".", "0", "0">>
  /\ paymentTermsTemplates = "none"
  /\ selectedPaymentTerms = NULL
  /\ selectedProduct = Absent
  /\ productDetailSource = "cart"
  /\ validationErrors = <<>>
  /\ createdOrder = Absent
  /\ tasks = <<>>
  /\ subs = [n \in Slots |-> IdleSub]
  /\ lastNext = NoCall
  /\ storeTaxSettings = Absent
  /\ customerTaxExempt = FALSE
  /\ taxData = InitialTaxData
  /\ effectPending = TRUE

NextTax ==
  \/ calculateEnhancedTax
  \/ CartItemsChanged
  \/ PricingChanged
  \/ LocationChanged
  \/ StoreTaxSettingsChanged
  \/ CustomerTaxExemptChanged
  \/ DeliveryFeeChanged
  \/ SurchargeChanged

SpecTax == InitTax /\ [][NextTax]_vars

\* The selection scenario: the operator selects a customer and taps company
\* locations while earlier selection handlers are still waiting for their
\* answers (the buttons stay enabled while a handler is suspended).
NextSelect ==
  \/ CustomerCompaniesFetched
  \/ CustomerPricingFetched
  \/ CustomerNoCompany
  \/ LocationPricingFetched
  \/ CartItemsLoaded
  \/ CompaniesAutoLoaded
  \/ SelectCustomer
  \/ StartCustomerSelection(MaxConcurrent)
  \/ StartLocationSelection(MaxConcurrent)
  \/ Back

SpecSelect == Init /\ [][NextSelect]_vars

\* The assembly scenario: the operator is on the delivery screen with any cart
\* of one or two items (any name, any attribute bag, in any order), types the
\* fees and presses "Process Transaction".
Delivery == <<"D","e","l","i","v","e","r","y">>
Handling == <<"H","A","N","D","L","I","N","G">>
Service == <<"S","e","r","v","i","c","e">>

AssemblyNames == {Widget, RushFee, Delivery, Handling, Service}

AttributeBags ==
  { <<>>,
    << Attr("Type", "Surcharge") >>,
    << Attr("Type", "Surcharge"), Attr("SurchargeType", "Delivery Fee") >>,
    << Attr("SurchargeType", "Handling Fee") >>,
    << Attr("Taxable", "No") >> }

AssemblyItem(i, name, bag) ==
  [id |-> i,
   productId |-> IF i = 1 THEN "p1" ELSE "p2",
   name |-> name,
   quantity |-> 1,
   price |-> 1000,
   customAttributes |-> bag]

AssemblyCarts ==
  { << AssemblyItem(1, name, bag) >> : name \in AssemblyNames, bag \in AttributeBags }
  \cup
  { << AssemblyItem(1, n1, b1), AssemblyItem(2, n2, b2) >> :
      n1 \in AssemblyNames, b1 \in AttributeBags,
      n2 \in AssemblyNames, b2 \in AttributeBags }

\* what the operator types into the fee fields
FeeTexts == FeeInputs \cup { <<"-", "5">> }

InitAssemble ==
  /\ posCart \in PosCarts
  /\ currentScreen = "delivery"
  /\ selectedCustomer \in Customers
  /\ selectedLocation \in Locations
  /\ selectedCompany = selectedLocation
  /\ availableCompanies = Locations
  /\ cartItems \in AssemblyCarts
  /\ quantityRules = NoRules
  /\ b2bPricing = NoPricing
  /\ poNumber = <<"a", "b", "1">>
  /\ deliveryMethod = "pickup"
  /\ customDeliveryFee = <<"0", ".", "0", "0">>
  /\ customSurcharge = <<"0", ".", "0", "0">>
  /\ paymentTermsTemplates = "none"
  /\ selectedPaymentTerms = NULL
  /\ selectedProduct = Absent
  /\ productDetailSource = "cart"
  /\ validationErrors = <<>>
  /\ createdOrder = Absent
  /\ tasks = <<>>
  /\ subs = [n \in Slots |-> IdleSub]
  /\ lastNext = NoCall
  /\ storeTaxSettings = Absent
  /\ customerTaxExempt = FALSE
  /\ taxData = InitialTaxData
  /\ effectPending = TRUE

NextAssemble ==
  \/ SetDeliveryMethod
  \/ EnterDeliveryFee(FeeInputs)
  \/ EnterSurcharge(FeeTexts)
  \/ createB2BOrder

SpecAssemble == InitAssemble /\ [][NextAssemble]_vars

\* ------------------------------------------------------------- properties
InFlight(n) == subs[n].pc \in InFlightPcs
Alphanumerics == Range(UpperChars) \cup Range(LowerChars) \cup Range(DigitChars)
CreatesIn(log) == {i \in DOMAIN log : log[i].op = "draftOrderCreate"}
FatalAnswers == {"httpError", "graphqlErrors", "userErrors", "noDraftOrder"}
SessionFields ==
  << selectedCustomer, selectedLocation, poNumber, deliveryMethod,
     customDeliveryFee, customSurcharge, cartItems, currentScreen >>

\* C1: a submission sends its draft-order-create request only in a step taken
\* while a customer and a location are selected, the PO number is non-empty
\* and made of 3 to 20 letters and digits, and the validator reports isValid
\* for the current cart items and rules.
C1_CreateOnlyWhenPreconditionsHold ==
  [][\A n \in Slots :
       (subs'[n].pc = "create" /\ subs'[n] # subs[n]) =>
         /\ selectedCustomer # NULL
         /\ selectedLocation # NULL
         /\ poNumber # <<>>
         /\ Len(poNumber) >= MinPoLen /\ Len(poNumber) <= MaxPoLen
         /\ \A i \in DOMAIN poNumber : poNumber[i] \in Alphanumerics
         /\ validateQuantityRules(cartItems, quantityRules).isValid
         /\ Len(subs'[n].log) = 1
         /\ subs'[n].log[1].op = "draftOrderCreate"]_vars

C1_Witness ==
  \E n \in Slots :
    /\ subs[n].pc = "create"
    /\ subs[n].log[1].op = "draftOrderCreate"
    /\ subs[n].snap.poNumber = poNumber
    /\ Len(poNumber) = MinPoLen

\* C2: no step takes the session from the cart or the quantity screen to the
\* delivery screen while the validator reports the current cart items invalid
\* under the current quantity rules.
C2_NoDeliveryWhileInvalid ==
  [][(currentScreen \in {"cart", "quantity"} /\ currentScreen' = "delivery") =>
       validateQuantityRules(cartItems, quantityRules).isValid]_vars

C2_Witness ==
  /\ currentScreen = "delivery"
  /\ \E i \in DOMAIN cartItems :
       LET r == quantityRules[cartItems[i].productId] IN
       r # Absent /\ r.minQuantity > posCart[i].quantity
  /\ quantityValidation.isValid

\* C3: a submission sends at most two create requests; the second one exists
\* exactly when the first was sent with payment terms and was answered with a
\* payment-terms error, and it carries no payment terms and the same line
\* items; whatever the second is answered, there is no third.
C3_RetryOnceWithoutTerms ==
  \A n \in Slots :
    LET log == subs[n].log IN
    /\ Cardinality(CreatesIn(log)) <= 2
    /\ \A i \in CreatesIn(log) : i <= 2
    /\ (Len(log) >= 2 /\ log[2].op = "draftOrderCreate") =>
         /\ log[1].answer = "paymentTermsError"
         /\ log[1].paymentTerms # NULL
         /\ log[2].paymentTerms = NULL
         /\ InFlight(n) => log[2].lineItems = log[1].lineItems
    /\ (Len(log) >= 1 /\ log[1].answer = "paymentTermsError"
          /\ log[1].paymentTerms # NULL) =>
         Len(log) >= 2 /\ log[2].op = "draftOrderCreate"

C3_Witness ==
  \E n \in Slots :
    /\ subs[n].pc = "failed"
    /\ Len(subs[n].log) = 2
    /\ subs[n].log[2].op = "draftOrderCreate"
    /\ subs[n].log[2].answer = "paymentTermsError"

\* C4: a create request answered with an HTTP error, GraphQL errors, user
\* errors that do not mention payment terms, or no draft order is the last
\* request of its submission, which has failed; and the step in which a
\* submission fails shows the failure message.
C4_OtherCreateFailuresAreFatal ==
  /\ [](\A n \in Slots : \A i \in CreatesIn(subs[n].log) :
          subs[n].log[i].answer \in FatalAnswers =>
            i = Len(subs[n].log) /\ subs[n].pc = "failed")
  /\ [][\A n \in Slots :
          (subs'[n].pc = "failed" /\ subs'[n] # subs[n]) =>
            validationErrors' = << Err("createFailed") >>]_vars

C4_Witness ==
  \E n \in Slots :
    /\ subs[n].pc = "failed"
    /\ Len(subs[n].log) = 1
    /\ subs[n].log[1].answer = "userErrors"
    /\ validationErrors = << Err("createFailed") >>

\* C5: in the log of a submission the create requests come first, the
\* payment-terms fetch directly follows a create answered with a draft order,
\* the completion directly follows the payment-terms fetch, and the
\* fulfillment directly follows a completion that succeeded.
C5_PipelineOrder ==
  \A n \in Slots :
    LET log == subs[n].log IN
    \A i \in DOMAIN log :
      /\ i = 1 => log[i].op = "draftOrderCreate"
      /\ log[i].op = "draftOrderCreate" => i <= 2
      /\ log[i].op = "paymentTerms" =>
           i > 1 /\ log[i - 1].op = "draftOrderCreate" /\ log[i - 1].answer = "created"
      /\ log[i].op = "draftOrderComplete" =>
           i > 2 /\ log[i - 1].op = "paymentTerms"
      /\ log[i].op = "fulfillmentCreate" =>
           i > 3 /\ log[i - 1].op = "draftOrderComplete"
                 /\ log[i - 1].answer = "completed"

C5_Witness ==
  \E n \in Slots :
    /\ subs[n].pc = "fulfillment"
    /\ Len(subs[n].log) = 5
    /\ subs[n].log[5].op = "fulfillmentCreate"

\* C6: a submission whose create request was answered with a draft order never
\* fails; a step of it after the creation leaves the error list alone, never
\* drops the created order, and when it ends the submission it leaves the
\* created order as it is and puts the session on the confirmation screen.
C6_LaterFailuresAreNotFatal ==
  /\ [](\A n \in Slots : \A i \in CreatesIn(subs[n].log) :
          subs[n].log[i].answer \in {"created", "createdNoId"} =>
            subs[n].pc # "failed")
  /\ [][\A n \in Slots :
          (subs[n].pc \in {"paymentTerms", "complete", "fulfillment"}
             /\ subs'[n] # subs[n]) =>
            /\ subs'[n].pc \in {"complete", "fulfillment", "done"}
            /\ validationErrors' = validationErrors
            /\ createdOrder # Absent => createdOrder' # Absent
            /\ subs'[n].pc = "done" =>
                 currentScreen' = "confirmation" /\ createdOrder' = createdOrder]_vars

C6_Witness ==
  \E n \in Slots :
    /\ subs[n].pc = "done"
    /\ Len(subs[n].log) = 3
    /\ subs[n].log[2].answer = "failed"
    /\ subs[n].log[3].answer = "failed"
    /\ currentScreen = "confirmation"
    /\ createdOrder # Absent
    /\ createdOrder.status = "draft"

\* C7: a step of a submission up to and including its failure (the rejected
\* press, the create request, the retry, the failure) leaves the selected
\* customer and location, the PO number, the delivery method and fees, the
\* cart items and the current screen as they are.
C7_FailureLeavesSessionIntact ==
  [][\A n \in Slots :
       (subs'[n] # subs[n]
          /\ subs'[n].pc \in {"create", "retry", "failed", "rejected"}) =>
         UNCHANGED SessionFields]_vars

C7_Witness ==
  \E n \in Slots :
    /\ subs[n].pc = "failed"
    /\ validationErrors = << Err("createFailed") >>
    /\ currentScreen = "delivery"
    /\ selectedCustomer # NULL /\ selectedLocation # NULL
    /\ validatePONumber(poNumber)
    /\ cartItems # <<>>

\* C8: goToNextScreen called on the cart screen leads to the quantity screen
\* when the validator is invalid and to the delivery screen when it is valid;
\* called on the quantity screen with a valid validator it leads to the
\* delivery screen.
C8_NextFromCartAndQuantity ==
  /\ (lastNext.screen = "cart" /\ ~lastNext.isValid) => currentScreen = "quantity"
  /\ (lastNext.screen = "cart" /\ lastNext.isValid) => currentScreen = "delivery"
  /\ (lastNext.screen = "quantity" /\ lastNext.isValid) => currentScreen = "delivery"

C8_Witness ==
  /\ lastNext.screen = "cart"
  /\ ~lastNext.isValid
  /\ currentScreen = "quantity"
  /\ ~quantityValidation.isValid

\* C9: a step taken on the confirmation screen stays there or goes to the
\* customer screen.
C9_ConfirmationIsTerminal ==
  [][currentScreen = "confirmation" =>
       currentScreen' \in {"confirmation", "customer"}]_vars

\* C10: on the cart, quantity, product-detail, delivery and confirmation
\* screens a customer and a location are selected.
C10_CustomerAndLocationSelected ==
  currentScreen \in {"cart", "quantity", "product-detail", "delivery", "confirmation"}
    => selectedCustomer # NULL /\ selectedLocation # NULL

\* C11: for a cart item whose rule has an increment, the validator reports an
\* increment error exactly when (quantity - minQuantity) mod increment is not 0.
C11_IncrementCountedFromMinimum ==
  \A i \in DOMAIN cartItems :
    LET item == cartItems[i]
        r == quantityRules[item.productId]
    IN (r # Absent /\ r.increment # 0) =>
         (([item |-> item.id, kind |-> "increment"]
             \in Range(quantityValidation.errors))
            <=> ((item.quantity - r.minQuantity) % r.increment # 0))

\* C12: for a cart item with a rule, the validator reports an error for the
\* item when quantity < minQuantity and none when quantity = minQuantity.
C12_MinimumBoundary ==
  \A i \in DOMAIN cartItems :
    LET item == cartItems[i]
        r == quantityRules[item.productId]
        flagged == \E e \in Range(quantityValidation.errors) : e.item = item.id
    IN r # Absent =>
         /\ item.quantity < r.minQuantity => flagged
         /\ item.quantity = r.minQuantity => ~flagged

\* the sum over draft-order lines of unit price times quantity
RECURSIVE LinesTotal(_)
LinesTotal(lines) ==
  IF lines = <<>> THEN 0
  ELSE Head(lines).originalUnitPrice * Head(lines).quantity
         + LinesTotal(Tail(lines))

\* C15: for every cart, delivery fee and custom surcharge, the lines
\* createB2BOrder assembles sum (unit price times quantity) to
\* orderSummary.finalTotal, within one cent.
C15_LinesSumToFinalTotal ==
  LET lines == AssembleLineItems(cartItems, b2bPricing, deliveryMethod,
                                 deliveryFee, surchargeAmount)
      d == LinesTotal(lines) - orderSummary.finalTotal
  IN d \in -1..1

\* C13: whenever the customer is tax-exempt, the hook's taxAmount and
\* shippingTaxAmount are both 0.
C13_ExemptMeansNoTax ==
  customerTaxExempt => (taxAmount = 0 /\ shippingTaxAmount = 0)

\* C16: taxData's rate, title, isIncluded and shippingTaxable are, in every
\* state, the ones the current location, store tax settings and exemption
\* flag determine.
C16_TaxDataNeverStale ==
  LET current == EnhancedTax(selectedLocation, storeTaxSettings, customerTaxExempt)
  IN /\ taxData.rate = current.rate
     /\ taxData.title = current.title
     /\ taxData.isIncluded = current.isIncluded
     /\ taxData.shippingTaxable = current.shippingTaxable

\* the right-hand side of the totals identity, in units of 1/RateScale of a cent
TotalsIdentity ==
  (Subtotal(cartItems, b2bPricing) + deliveryFee + surchargeAmount) * RateScale
    + (IF taxData.isIncluded THEN 0 ELSE taxAmount + shippingTaxAmount)

\* C14: in every state finalTotal = subtotal + deliveryFee + surcharge +
\* (isIncluded ? 0 : taxAmount + shippingTaxAmount), for the finalTotal of the
\* hook or for the finalTotal of orderSummary.
C14_FinalTotalIdentity ==
  \/ finalTotal = TotalsIdentity
  \/ orderSummary.finalTotal * RateScale = TotalsIdentity

HasLineOfType(lines, type) ==
  \E i \in DOMAIN lines :
    \E a \in DOMAIN lines[i].customAttributes :
      lines[i].customAttributes[a] = Attr("Type", type)

\* C20: for a customer who is not exempt, the lines createB2BOrder assembles
\* for a cart at a location contain a line of Type "Tax" and, when
\* shippingTaxAmount > 0, a line of Type "Shipping Tax".
C20_TaxLinesWhenNotExempt ==
  LET lines == AssembleLineItems(cartItems, b2bPricing, deliveryMethod,
                                 deliveryFee, surchargeAmount)
  IN (~customerTaxExempt /\ cartItems # <<>> /\ selectedLocation # NULL) =>
       /\ HasLineOfType(lines, "Tax")
       /\ shippingTaxAmount > 0 => HasLineOfType(lines, "Shipping Tax")

\* C17: the writes of two selection handlers never interleave: no step changes
\* the contextual pricing, the quantity rules or the cart items while two
\* selection handlers are suspended at an await.
C17_SelectionHandlersDoNotInterleave ==
  [][ << b2bPricing, quantityRules, cartItems >>'
        # << b2bPricing, quantityRules, cartItems >>
      => Cardinality(SelectionTasks) <= 1 ]_vars

\* C18: after "Create New Transaction" the screen is customer and the selected
\* customer, company and location, the PO number, the delivery method and
\* fees, the cart items, the contextual pricing, the quantity rules, the
\* created order and the validation errors have their initial values.
C18_ResetDiscardsTheSession ==
  [][ (currentScreen = "confirmation" /\ currentScreen' = "customer") =>
        /\ selectedCustomer' = NULL
        /\ selectedCompany' = NULL
        /\ selectedLocation' = NULL
        /\ poNumber' = <<>>
        /\ deliveryMethod' = "pickup"
        /\ customDeliveryFee' = <<"0", ".", "0", "0">>
        /\ customSurcharge' = <<"0", ".", "0", "0">>
        /\ cartItems' = <<>>
        /\ b2bPricing' = NoPricing
        /\ quantityRules' = NoRules
        /\ createdOrder' = Absent
        /\ validationErrors' = <<>> ]_vars

\* C19: once quantity rules have been fetched, no later step of the session
\* changes them.
C19_QuantityRulesFixedOnceFetched ==
  [][ quantityRules # NoRules => quantityRules' = quantityRules ]_vars

\* the line items of the draftOrderCreate requests sent so far
SentLineItems ==
  { subs[n].log[k].lineItems :
      n \in {m \in Slots : subs[m].pc = "create"}, k \in {1} }

LineType(line) ==
  IF \E a \in DOMAIN line.customAttributes : line.customAttributes[a].key = "Type"
    THEN line.customAttributes[
           CHOOSE a \in DOMAIN line.customAttributes :
             line.customAttributes[a].key = "Type"].value
    ELSE "Product"

KindRank(line) ==
  CASE LineType(line) = "Product" -> 1
    [] LineType(line) = "Surcharge" -> 2
    [] LineType(line) \in {"Delivery Fee", "Custom Surcharge"} -> 3
    [] OTHER -> 4

\* C21: in the line items of a draftOrderCreate request, product lines come
\* first, then surcharge-item lines, then the fee lines, then the tax lines,
\* whatever the order of the cart.
C21_LinesOrderedByKind ==
  \A lines \in SentLineItems :
    \A i, j \in DOMAIN lines : i < j => KindRank(lines[i]) <= KindRank(lines[j])

\* the type the name of a surcharge item stands for
TypeByName(name) ==
  IF includes(toLowerCase(name), <<"d","e","l","i","v","e","r","y">>)
    THEN "Delivery Fee"
  ELSE IF includes(toLowerCase(name), <<"r","u","s","h">>) THEN "Rush Order Fee"
  ELSE IF includes(toLowerCase(name), <<"h","a","n","d","l","i","n","g">>)
    THEN "Handling Fee"
  ELSE "Custom Surcharge"

\* the explicit SurchargeType attribute, else the explicit Type attribute, else
\* the type the name stands for
ExpectedSurchargeType(item) ==
  IF HasAttr(item, "SurchargeType") THEN FindAttr(item, "SurchargeType").value
  ELSE IF HasAttr(item, "Type") THEN FindAttr(item, "Type").value
  ELSE TypeByName(item.name)

\* C23: for every surcharge item of the cart, getSurchargeType is the value of
\* its explicit SurchargeType/Type attribute when it has one and the type
\* inferred from its name otherwise, and the item's draft-order line carries
\* that value as SurchargeType.
C23_SurchargeTypeResolved ==
  \A i \in DOMAIN cartItems :
    isSurchargeItem(cartItems[i]) =>
      /\ getSurchargeType(cartItems[i]) = ExpectedSurchargeType(cartItems[i])
      /\ \A lines \in SentLineItems :
           \E a \in DOMAIN lines[i].customAttributes :
             lines[i].customAttributes[a] =
               Attr("SurchargeType", ExpectedSurchargeType(cartItems[i]))

ClaimedKeywords ==
  { <<"s","u","r","c","h","a","r","g","e">>, <<"f","e","e">>,
    <<"c","h","a","r","g","e">>, <<"d","e","l","i","v","e","r","y">>,
    <<"h","a","n","d","l","i","n","g">>, <<"r","u","s","h">> }

ContainsText(text, kw) ==
  \E k \in 1..(Len(text) - Len(kw) + 1) : SubSeq(text, k, k + Len(kw) - 1) = kw

\* C24: a cart item is classified as a surcharge exactly when it carries the
\* attribute Type = "Surcharge" or its lower-cased name contains one of the
\* six keywords, and every cart item is in exactly one of productItems and
\* surchargeItems.
C24_SurchargeClassification ==
  \A i \in DOMAIN cartItems :
    LET item == cartItems[i] IN
    /\ isSurchargeItem(item) <=>
         \/ Attr("Type", "Surcharge") \in Range(item.customAttributes)
         \/ \E kw \in ClaimedKeywords : ContainsText(toLowerCase(item.name), kw)
    /\ (item \in Range(productItems)) # (item \in Range(surchargeItems))
    /\ Len(productItems) + Len(surchargeItems) = Len(cartItems)

\* a cart with a product and with a surcharge item recognised by its
\* upper-case name alone has been submitted, and its line is a surcharge line
C24_Witness ==
  \E n \in Slots :
    /\ subs[n].pc = "create"
    /\ Len(cartItems) = 2
    /\ cartItems[1].name = Widget /\ cartItems[1].customAttributes = <<>>
    /\ cartItems[2].name = Handling /\ cartItems[2].customAttributes = <<>>
    /\ LineType(subs[n].log[1].lineItems[1]) = "Product"
    /\ LineType(subs[n].log[1].lineItems[2]) = "Surcharge"

\* C25: the subtotal, the delivery fee, the surcharge, the tax amounts and the
\* totals are never negative, whatever is typed into the fee fields.
C25_MoneyNeverNegative ==
  /\ Subtotal(cartItems, b2bPricing) >= 0
  /\ deliveryFee >= 0
  /\ surchargeAmount >= 0
  /\ taxAmount >= 0
  /\ shippingTaxAmount >= 0
  /\ orderSummary.finalTotal >= 0
  /\ finalTotal >= 0

PricingFetchFailed ==
  \E i \in DOMAIN tasks :
    /\ tasks[i].kind = "location" /\ tasks[i].pc = "pricing"
    /\ tasks[i].products # {}
    /\ tasks' = [tasks EXCEPT ![i].pc = "load"]
    /\ b2bPricing' = NoPricing

\* C26: a failed collaborator call is shown as an error: after a pricing fetch
\* that failed, the error list of the session is not empty.
C26_FailedFetchIsSurfaced ==
  [][ PricingFetchFailed => validationErrors' # <<>> ]_vars

\* a draftOrderCreate request, first or retried, is answered with a draft order
CreateSucceeded ==
  \E n \in Slots :
    /\ subs[n].pc \in {"create", "retry"}
    /\ Len(subs'[n].log) >= Len(subs[n].log)
    /\ subs'[n].log[Len(subs[n].log)].answer \in {"created", "createdNoId"}

\* C27: between two resets at most one draft order is created: no
\* draftOrderCreate request succeeds while the session holds a created order.
C27_OneDraftOrderPerSession ==
  [][ CreateSucceeded => createdOrder = Absent ]_vars

\* C28: the screen becomes confirmation only from delivery, and a created
\* order is written into the session only while it is on delivery.
C28_ConfirmationOnlyFromDelivery ==
  [][ /\ (currentScreen' = "confirmation" /\ currentScreen # "confirmation")
           => currentScreen = "delivery"
      /\ (createdOrder' # createdOrder /\ createdOrder' # Absent)
           => currentScreen = "delivery" ]_vars

\* C29: on the quantity screen, an item is listed as having an issue exactly
\* when the validator reports an error for it, so no item is listed exactly
\* when Continue is enabled.
C29_QuantityScreenAgreesWithValidator ==
  currentScreen = "quantity" =>
    /\ \A i \in DOMAIN cartItems :
         HasQuantityIssue(cartItems[i]) <=>
           \E e \in Range(quantityValidation.errors) : e.item = cartItems[i].id
    /\ (\A i \in DOMAIN cartItems : ~HasQuantityIssue(cartItems[i]))
         <=> quantityValidation.isValid

\* the quantities a sequence of presses of "+" and "-" leads to
RECURSIVE PressReachable(_, _)
PressReachable(quantities, rules) ==
  LET more == quantities
                \cup { DecreasedQuantity(q, rules) : q \in quantities }
                \cup { IncreasedQuantity(q, rules) : q \in quantities }
  IN IF more = quantities THEN quantities ELSE PressReachable(more, rules)

AcceptedAt(item, quantity) ==
  ItemErrors([item EXCEPT !.quantity = quantity], quantityRules) = <<>>

\* C30: for a cart item with a rule and a maximum that violates the rule while
\* the validator accepts some quantity between minQuantity and maxQuantity,
\* presses of "+" and "-" lead to a quantity the validator accepts.
C30_AcceptedQuantityReachable ==
  \A i \in DOMAIN cartItems :
    LET item == cartItems[i]
        r == quantityRules[item.productId]
    IN (/\ r # Absent
        /\ r.maxQuantity # 0
        /\ ~AcceptedAt(item, item.quantity)
        /\ \E q \in r.minQuantity..r.maxQuantity : AcceptedAt(item, q))
         => \E q \in PressReachable({item.quantity}, r) : AcceptedAt(item, q)

====
